---- MODULE Spec2Model ----
(***************************************************************************)
(* Model of src/dakikg/src/App.jsx: the SPARQL query builder (buildQuery), *)
(* the fetch wrapper (fetchSparql) and the two debounced search streams    *)
(* (useDebounce + useSearchResults, instantiated twice by App).            *)
(*                                                                         *)
(* Strings are sequences of tokens.  A token is a one-character string,    *)
(* or a longer string standing for a run of characters that the code never *)
(* takes apart (a fixed piece of a template literal, a path segment).      *)
(* The empty sequence <<>> is the empty string ''.                         *)
(***************************************************************************)
EXTENDS Integers, Sequences, FiniteSets, TLC

(* ----------------------------- bounds --------------------------------- *)

\* Largest number of user events (edits of an input, a select or the
\* endpoint field) in one run.
MaxEvents == 3

(* ------------------------- program constants -------------------------- *)

DEFAULT_ENDPOINT == <<"/graphdb/repositories/dakikg">>

EN == <<"e", "n">>
NL == <<"n", "l">>
LANG_OPTIONS == {EN, NL}

Streams == {"drug", "ade"}
PREDICATES == [drug |-> <<"rdfs:label">>, ade |-> <<"skos:prefLabel">>]
PredicateValues == {PREDICATES[k] : k \in DOMAIN PREDICATES}

\* The template literal, cut at its three placeholders.
SPARQL_TEMPLATE ==
  << "PREFIX rdfs: <http://www.w3.org/2000/01/rdf-schema#>\nPREFIX skos: <http://www.w3.org/2004/02/skos/core#>\n\nSELECT ?e (SUBSTR(STR(?label), 1, 150) AS ?shortLabel) WHERE {\n  ?e <http://www.ontotext.com/plugins/autocomplete#query> \"",
     "q0",
     "\" .\n  ?e ",
     "qPred",
     " ?label .\n  FILTER(lang(?label) = \"",
     "qLang",
     "\")\n} LIMIT 10" >>

\* query.trim().length < 2
MinQueryLength == 2

\* null and undefined state values are the empty sequence: the code only
\* tests them for truthiness, and '' is falsy as well.
Null == <<>>
\* An absent buildQuery argument; `${lang}` renders it as "undefined".
Undefined == <<"undefined">>

(* --------------------------- string library --------------------------- *)

IsSpace(c) == c = " "

RECURSIVE TrimStart(_)
TrimStart(s) ==
  IF s = <<>> THEN <<>>
  ELSE IF IsSpace(Head(s)) THEN TrimStart(Tail(s)) ELSE s

RECURSIVE TrimEnd(_)
TrimEnd(s) ==
  IF s = <<>> THEN <<>>
  ELSE IF IsSpace(s[Len(s)]) THEN TrimEnd(SubSeq(s, 1, Len(s) - 1)) ELSE s

\* String.prototype.trim
Trim(s) == TrimEnd(TrimStart(s))

LowerChar(c) ==
  CASE c = "E" -> "e"
    [] c = "N" -> "n"
    [] c = "L" -> "l"
    [] c = "D" -> "d"
    [] OTHER -> c

\* String.prototype.toLowerCase
ToLowerCase(s) == [i \in 1..Len(s) |-> LowerChar(s[i])]

\* Index of the first occurrence of token pat in s, 0 when there is none.
IndexOf(s, pat) ==
  IF \E i \in 1..Len(s) : s[i] = pat
  THEN CHOOSE i \in 1..Len(s) : s[i] = pat /\ \A j \in 1..(i - 1) : s[j] # pat
  ELSE 0

\* The replacement patterns of String.prototype.replace with a string
\* replacement: $$ is a dollar sign, $& the match, $` the text before the
\* match and $' the text after it.
RECURSIVE ExpandReplacement(_, _, _, _)
ExpandReplacement(repl, matched, before, after) ==
  IF repl = <<>> THEN <<>>
  ELSE IF Head(repl) = "$" /\ Len(repl) >= 2 /\ repl[2] \in {"$", "&", "`", "'"}
       THEN (CASE repl[2] = "$" -> <<"$">>
               [] repl[2] = "&" -> <<matched>>
               [] repl[2] = "`" -> before
               [] repl[2] = "'" -> after)
            \o ExpandReplacement(SubSeq(repl, 3, Len(repl)), matched, before, after)
       ELSE <<Head(repl)>>
            \o ExpandReplacement(Tail(repl), matched, before, after)

\* s.replace(pat, repl) with a string pattern: the first occurrence only.
ReplaceFirst(s, pat, repl) ==
  LET i == IndexOf(s, pat) IN
  IF i = 0 THEN s
  ELSE LET before == SubSeq(s, 1, i - 1)
           after == SubSeq(s, i + 1, Len(s))
       IN before \o ExpandReplacement(repl, pat, before, after) \o after

\* s.replace(/c/g, repl) for a one-character pattern and a replacement
\* without replacement patterns.
RECURSIVE ReplaceAllChar(_, _, _)
ReplaceAllChar(s, c, repl) ==
  IF s = <<>> THEN <<>>
  ELSE (IF Head(s) = c THEN repl ELSE <<Head(s)>>) \o ReplaceAllChar(Tail(s), c, repl)

Contains(s, part) ==
  \E i \in 0..(Len(s) - Len(part)) : SubSeq(s, i + 1, i + Len(part)) = part

(* ---------------------------- query builder --------------------------- *)

escapeSparqlStringLiteral(value) ==
  ReplaceAllChar(ReplaceAllChar(value, "\\", <<"\\", "\\">>), "\"", <<"\\", "\"">>)

\* (lang || '').trim().toLowerCase()
NormalizeLang(lang) ==
  ToLowerCase(Trim(IF lang = Undefined \/ lang = <<>> THEN <<>> ELSE lang))

Throw(name, message) == [threw |-> TRUE, name |-> name, message |-> message, value |-> <<>>]
Return(v) == [threw |-> FALSE, name |-> "", message |-> <<>>, value |-> v]

\* A language check on the argument as given.
buildQuery_NoNormalize(query, predicate, lang) ==
  IF lang \notin LANG_OPTIONS
  THEN Throw("Error", <<"Unsupported language: ">> \o lang \o <<". Expected en or nl.">>)
  ELSE IF predicate \notin PredicateValues
  THEN Throw("Error", <<"Unsupported predicate: ">> \o predicate \o <<".">>)
  ELSE Return(ReplaceFirst(
                ReplaceFirst(
                  ReplaceFirst(SPARQL_TEMPLATE, "q0", escapeSparqlStringLiteral(query)),
                  "qPred", predicate),
                "qLang", lang))

buildQuery(query, predicate, lang) ==
  LET normalizedLang == NormalizeLang(lang) IN
  IF normalizedLang \notin LANG_OPTIONS
  THEN Throw("Error", <<"Unsupported language: ">> \o lang \o <<". Expected en or nl.">>)
  ELSE IF predicate \notin PredicateValues
  THEN Throw("Error", <<"Unsupported predicate: ">> \o predicate \o <<".">>)
  ELSE Return(ReplaceFirst(
                ReplaceFirst(
                  ReplaceFirst(SPARQL_TEMPLATE, "q0", escapeSparqlStringLiteral(query)),
                  "qPred", predicate),
                "qLang", normalizedLang))

(* ------------------------------ fetchSparql --------------------------- *)

\* What fetchSparql resolves with: the string 'No matches found.' or rows.
StringData(str) == [isString |-> TRUE, str |-> str, rows |-> <<>>]
ArrayData(rows) == [isString |-> FALSE, str |-> <<>>, rows |-> rows]
Resolved(data) == [threw |-> FALSE, name |-> "", message |-> <<>>, data |-> data]
Rejected(name, message) ==
  [threw |-> TRUE, name |-> name, message |-> message, data |-> StringData(<<>>)]

\* uri.split('/').pop(): what follows the last "/".
RECURSIVE LastSegment(_)
LastSegment(uri) ==
  IF uri = <<>> THEN <<>>
  ELSE IF uri[Len(uri)] = "/" THEN <<>>
  ELSE LastSegment(SubSeq(uri, 1, Len(uri) - 1)) \o <<uri[Len(uri)]>>

\* A row that keeps the whole URI as its id.
MapRow_WholeUri(result) == [id |-> result.e, label |-> result.shortLabel]

\* One binding to one row; an absent e or shortLabel is ''.
MapRow(result) ==
  LET uri == result.e
      last == LastSegment(uri)
  IN [id |-> IF last # <<>> THEN last ELSE uri, label |-> result.shortLabel]

MapRows(bindings) == [i \in 1..Len(bindings) |-> MapRow(bindings[i])]

\* response.ok
ResponseOk(resp) == resp.status >= 200 /\ resp.status <= 299

\* fetchSparql from the moment fetch settles with resp.
FetchSettles(resp) ==
  IF resp.kind = "network" THEN Rejected("TypeError", resp.text)
  ELSE IF ~ResponseOk(resp)
  THEN Rejected("Error",
                <<"Query failed (", ToString(resp.status), " ">> \o resp.statusText
                \o <<"): ">>
                \o (IF resp.text # <<>> THEN resp.text ELSE <<"No response body.">>))
  ELSE IF resp.kind = "badjson" THEN Rejected("SyntaxError", <<"Unexpected token">>)
  ELSE LET rows == MapRows(resp.bindings) IN
       Resolved(IF Len(rows) = 0 THEN StringData(<<"No matches found.">>)
                ELSE ArrayData(rows))

\* An aborted fetch, or an aborted read of the body, rejects with AbortError.
AbortRejection == Rejected("AbortError", <<"The user aborted a request.">>)

(* ------------------------- the network's answers ---------------------- *)

\* A binding with both variables bound, and one whose e ends in "/" and
\* whose shortLabel is absent.
BindingA == [e |-> <<"http:", "/", "/", "kg", "/", "12345">>, shortLabel |-> <<"Ibuprofen">>]
BindingB == [e |-> <<"kg", "/">>, shortLabel |-> <<>>]

Response(kind, status, statusText, text, bindings) ==
  [kind |-> kind, status |-> status, statusText |-> statusText,
   text |-> text, bindings |-> bindings]

Responses ==
  {Response("json", 200, <<"OK">>, <<>>, b) :
     b \in {<<>>, <<BindingA, BindingB>>, <<BindingB, BindingA>>}}
  \cup { Response("badjson", 200, <<"OK">>, <<"<html>">>, <<>>),
         Response("http", 500, <<"Internal Server Error">>, <<"Internal error">>, <<>>),
         Response("http", 404, <<"Not Found">>, <<>>, <<>>),
         Response("network", 0, <<>>, <<"Failed to fetch">>, <<>>) }

(* ------------------------------- state -------------------------------- *)

VARIABLES
  endpoint,    \* App: the endpoint address, shared by the two streams
  query,       \* App: drugQuery / adeQuery, the text as typed
  lang,        \* App: drugLang / adeLang
  debounced,   \* useDebounce: the debounced copy of the text
  timer,       \* useDebounce: the pending setTimeout, if any
  controller,  \* useSearchResults: the AbortController the cleanup will abort
  requests,    \* fetchSparql calls whose promise has not settled yet
  nextId,      \* AbortControllers created so far, per stream
  state,       \* useSearchResults: { loading, error, info, results }
  events,      \* user events handled so far
  call,        \* a direct call of fetchSparql: its arguments and its result
  sent         \* the fetches that direct call made

appVars ==
  <<endpoint, query, lang, debounced, timer, controller, requests, nextId, state, events>>
callVars == <<call, sent>>
vars == <<endpoint, query, lang, debounced, timer, controller, requests, nextId, state,
          events, call, sent>>

\* The texts a user types.
Texts ==
  { <<>>, <<" ", "a">>, <<"a", "b">>, <<"a", "b", " ">>, <<"c", "d">> }

Endpoints == { DEFAULT_ENDPOINT, <<"http://localhost:7200/repositories/dakikg">> }

NoTimer == [armed |-> FALSE, value |-> <<>>]
Armed(v) == [armed |-> TRUE, value |-> v]

Other(s) == IF s = "drug" THEN "ade" ELSE "drug"

(* --------------------------- useSearchResults ------------------------- *)

InitialState == [loading |-> FALSE, error |-> Null, info |-> Null, results |-> <<>>]

\* A too-short branch that forgets the rows.
IdleState_KeepRows(prev) ==
  [prev EXCEPT !.loading = FALSE, !.error = Null, !.info = Null]

\* The updater of the too-short branch.
IdleState(prev) ==
  [prev EXCEPT !.loading = FALSE, !.error = Null, !.info = Null, !.results = <<>>]

\* An updater that only raises the flag.
LoadingState_FlagOnly(prev) == [prev EXCEPT !.loading = TRUE]

\* The updater that precedes the fetch.
LoadingState(prev) ==
  [prev EXCEPT !.loading = TRUE, !.error = Null, !.info = Null]

\* A handler that forgets to lower the flag.
OnFulfilled_StillLoading(prev, data) ==
  IF data.isString
  THEN [loading |-> TRUE, error |-> Null, info |-> data.str, results |-> <<>>]
  ELSE [loading |-> TRUE, error |-> Null, info |-> Null, results |-> data.rows]

\* The .then handler.
OnFulfilled(prev, data) ==
  IF data.isString
  THEN [loading |-> FALSE, error |-> Null, info |-> data.str, results |-> <<>>]
  ELSE [loading |-> FALSE, error |-> Null, info |-> Null, results |-> data.rows]

\* err?.message || String(err)
ErrorText(err) ==
  IF err.message # <<>> THEN err.message ELSE <<err.name>>

\* A handler that reports the abort like any other failure.
OnRejected_NoAbortCheck(prev, err) ==
  [loading |-> FALSE, error |-> ErrorText(err), info |-> Null, results |-> <<>>]

\* A handler that keeps what the previous state held.
OnRejected_KeepRows(prev, err) ==
  IF err.name = "AbortError" THEN prev
  ELSE [prev EXCEPT !.loading = FALSE, !.error = ErrorText(err)]

\* The .catch handler.
OnRejected(prev, err) ==
  IF err.name = "AbortError" THEN prev
  ELSE [loading |-> FALSE, error |-> ErrorText(err), info |-> Null, results |-> <<>>]

\* An effect that returns no cleanup.
Cleanup_NoAbort(reqs, ctl) == reqs

\* controller.abort(), the effect's cleanup: ctl = 0 when the previous run
\* of the effect returned no cleanup.
Cleanup(reqs, ctl) ==
  {IF r.id = ctl THEN [r EXCEPT !.aborted = TRUE] ELSE r : r \in reqs}

Request(id, e, q, p, l, body) ==
  [id |-> id, endpoint |-> e, query |-> q, predicate |-> p, lang |-> l,
   body |-> body, aborted |-> FALSE]

\* The length check made on the untrimmed text.
SearchEffect_NoTrim(s, e, q, l) ==
  LET trimmed == Trim(q)
      cleaned == Cleanup(requests[s], controller[s])
      id == nextId[s] + 1
      built == buildQuery(trimmed, PREDICATES[s], l)
  IN IF Len(q) < MinQueryLength
     THEN [requests |-> cleaned, controller |-> 0, nextId |-> nextId[s],
           state |-> IdleState(state[s])]
     ELSE [requests |-> cleaned \cup {Request(id, e, trimmed, PREDICATES[s], l, built.value)},
           controller |-> id, nextId |-> id,
           state |-> LoadingState(state[s])]

\* One run of the effect of useSearchResults for stream s, its dependencies
\* now being endpoint e, query q and language l: the cleanup of the previous
\* run, then the body.  A buildQuery that throws rejects the promise of
\* fetchSparql before any fetch, and the .catch handler runs before any
\* other event.
SearchEffect(s, e, q, l) ==
  LET trimmed == Trim(q)
      cleaned == Cleanup(requests[s], controller[s])
      id == nextId[s] + 1
      built == buildQuery(trimmed, PREDICATES[s], l)
  IN IF Len(trimmed) < MinQueryLength
     THEN [requests |-> cleaned, controller |-> 0, nextId |-> nextId[s],
           state |-> IdleState(state[s])]
     ELSE IF built.threw
     THEN [requests |-> cleaned, controller |-> id, nextId |-> id,
           state |-> OnRejected(LoadingState(state[s]),
                                Rejected(built.name, built.message))]
     ELSE [requests |-> cleaned \cup {Request(id, e, trimmed, PREDICATES[s], l, built.value)},
           controller |-> id, nextId |-> id,
           state |-> LoadingState(state[s])]


(* ------------------------------- actions ------------------------------ *)

\* The state after the first render of App and its effects: both inputs
\* empty, each useDebounce holding a timer for '', each useSearchResults
\* having taken the too-short branch.
Init ==
  /\ endpoint = DEFAULT_ENDPOINT
  /\ query = [s \in Streams |-> <<>>]
  /\ lang = [s \in Streams |-> EN]
  /\ debounced = [s \in Streams |-> <<>>]
  /\ timer = [s \in Streams |-> Armed(<<>>)]
  /\ controller = [s \in Streams |-> 0]
  /\ requests = [s \in Streams |-> {}]
  /\ nextId = [s \in Streams |-> 0]
  /\ state = [s \in Streams |-> IdleState(InitialState)]
  /\ events = 0
  /\ call = [phase |-> "none", query |-> <<>>, predicate |-> <<>>, lang |-> <<>>,
             result |-> Return(<<>>)]
  /\ sent = 0

\* One more user event, within the bound.
UserEvent == events < MaxEvents /\ events' = events + 1

\* The re-run of the effect of useSearchResults(s) with dependencies e, q, l.
RunEffect(s, e, q, l) ==
  LET R == SearchEffect(s, e, q, l) IN
  /\ requests' = [requests EXCEPT ![s] = R.requests]
  /\ controller' = [controller EXCEPT ![s] = R.controller]
  /\ nextId' = [nextId EXCEPT ![s] = R.nextId]
  /\ state' = [state EXCEPT ![s] = R.state]

\* A useDebounce that hands the value on at once.
InputChange_NoDelay(s, v) ==
  /\ v # query[s]
  /\ UserEvent
  /\ query' = [query EXCEPT ![s] = v]
  /\ debounced' = [debounced EXCEPT ![s] = v]
  /\ RunEffect(s, endpoint, v, lang[s])
  /\ UNCHANGED <<endpoint, lang, timer>>
  /\ UNCHANGED callVars

\* An input change that also aborts the outstanding request.
InputChange_Cancels(s, v) ==
  /\ v # query[s]
  /\ UserEvent
  /\ query' = [query EXCEPT ![s] = v]
  /\ timer' = [timer EXCEPT ![s] = Armed(v)]
  /\ requests' = [requests EXCEPT ![s] = Cleanup(requests[s], controller[s])]
  /\ UNCHANGED <<endpoint, lang, debounced, controller, nextId, state>>
  /\ UNCHANGED callVars

\* onChange of a search input: setDrugQuery / setAdeQuery.  The effect of
\* useDebounce runs again: clearTimeout of the old timer, a new setTimeout.
InputChange(s, v) ==
  /\ v # query[s]
  /\ UserEvent
  /\ query' = [query EXCEPT ![s] = v]
  /\ timer' = [timer EXCEPT ![s] = Armed(v)]
  /\ UNCHANGED <<endpoint, lang, debounced, controller, requests, nextId, state>>
  /\ UNCHANGED callVars

\* A timer whose callback re-runs the search effect whatever the value.
TimerFire_AlwaysRerun(s) ==
  /\ timer[s].armed
  /\ timer' = [timer EXCEPT ![s] = NoTimer]
  /\ debounced' = [debounced EXCEPT ![s] = timer[s].value]
  /\ RunEffect(s, endpoint, timer[s].value, lang[s])
  /\ UNCHANGED <<endpoint, query, lang, events>>
  /\ UNCHANGED callVars

\* The setTimeout callback of useDebounce: setDebounced(value).  A value
\* equal to the current one causes no render; a new one re-runs the effect
\* of useSearchResults.
TimerFire(s) ==
  /\ timer[s].armed
  /\ timer' = [timer EXCEPT ![s] = NoTimer]
  /\ LET v == timer[s].value IN
     IF v = debounced[s]
     THEN UNCHANGED <<debounced, controller, requests, nextId, state>>
     ELSE /\ debounced' = [debounced EXCEPT ![s] = v]
          /\ RunEffect(s, endpoint, v, lang[s])
  /\ UNCHANGED <<endpoint, query, lang, events>>
  /\ UNCHANGED callVars

\* One language state passed to both streams.
LangChange_Shared(s, l) ==
  /\ l # lang[s]
  /\ UserEvent
  /\ lang' = [t \in Streams |-> l]
  /\ LET R == [t \in Streams |-> SearchEffect(t, endpoint, debounced[t], l)] IN
     /\ requests' = [t \in Streams |-> R[t].requests]
     /\ controller' = [t \in Streams |-> R[t].controller]
     /\ nextId' = [t \in Streams |-> R[t].nextId]
     /\ state' = [t \in Streams |-> R[t].state]
  /\ UNCHANGED <<endpoint, query, debounced, timer>>
  /\ UNCHANGED callVars

\* A search effect that does not depend on the language.
LangChange_NoRerun(s, l) ==
  /\ l # lang[s]
  /\ UserEvent
  /\ lang' = [lang EXCEPT ![s] = l]
  /\ UNCHANGED <<endpoint, query, debounced, timer, controller, requests, nextId, state>>
  /\ UNCHANGED callVars

\* onChange of a language select: setDrugLang / setAdeLang.
LangChange(s, l) ==
  /\ l # lang[s]
  /\ UserEvent
  /\ lang' = [lang EXCEPT ![s] = l]
  /\ RunEffect(s, endpoint, debounced[s], l)
  /\ UNCHANGED <<endpoint, query, debounced, timer>>
  /\ UNCHANGED callVars

\* onChange of the endpoint input: setEndpoint.  The effects of both
\* streams depend on it and run again.
EndpointChange(e) ==
  /\ e # endpoint
  /\ UserEvent
  /\ endpoint' = e
  /\ LET R == [s \in Streams |-> SearchEffect(s, e, debounced[s], lang[s])] IN
     /\ requests' = [s \in Streams |-> R[s].requests]
     /\ controller' = [s \in Streams |-> R[s].controller]
     /\ nextId' = [s \in Streams |-> R[s].nextId]
     /\ state' = [s \in Streams |-> R[s].state]
  /\ UNCHANGED <<query, lang, debounced, timer>>
  /\ UNCHANGED callVars

\* A settlement that sends a failed request again.
Settle_Retry(s, r, outcome) ==
  /\ requests' = [requests EXCEPT ![s] =
                    IF outcome.threw /\ outcome.name # "AbortError"
                    THEN requests[s] ELSE requests[s] \ {r}]
  /\ state' = [state EXCEPT ![s] =
                 IF outcome.threw THEN OnRejected(state[s], outcome)
                 ELSE OnFulfilled(state[s], outcome.data)]
  /\ UNCHANGED <<endpoint, query, lang, debounced, timer, controller, nextId, events>>
  /\ UNCHANGED callVars

\* The settlement of fetchSparql for a pending request.
Settle(s, r, outcome) ==
  /\ requests' = [requests EXCEPT ![s] = requests[s] \ {r}]
  /\ state' = [state EXCEPT ![s] =
                 IF outcome.threw THEN OnRejected(state[s], outcome)
                 ELSE OnFulfilled(state[s], outcome.data)]
  /\ UNCHANGED <<endpoint, query, lang, debounced, timer, controller, nextId, events>>
  /\ UNCHANGED callVars

\* The network answers a request that was not aborted.
Respond(s, r, resp) ==
  /\ r \in requests[s]
  /\ ~r.aborted
  /\ Settle(s, r, FetchSettles(resp))

\* An aborted request rejects.
AbortReject(s, r) ==
  /\ r \in requests[s]
  /\ r.aborted
  /\ Settle(s, r, AbortRejection)

Next ==
  \/ \E s \in Streams, v \in Texts : InputChange(s, v)
  \/ \E s \in Streams : TimerFire(s)
  \/ \E s \in Streams, l \in LANG_OPTIONS : LangChange(s, l)
  \/ \E e \in Endpoints : EndpointChange(e)
  \/ \E s \in Streams : \E r \in requests[s], resp \in Responses : Respond(s, r, resp)
  \/ \E s \in Streams : \E r \in requests[s] : AbortReject(s, r)

Spec == Init /\ [][Next]_vars

\* The steps of TimerFire(s) and of Respond(s, r, resp) among the steps of
\* Next, told by what each of them always does and no other action does:
\* the timer of s is armed and is cleared, an unaborted request of s leaves
\* the pending set.  Each is enabled exactly when the action it stands for
\* is (TimerFire whenever the timer is armed, Respond whenever an unaborted
\* request is pending), and states the fairness condition without the
\* search effect having to be computed to tell whether a step is possible.
TimerExpires(s) ==
  /\ timer[s].armed
  /\ timer' = [timer EXCEPT ![s] = NoTimer]

RequestAnswered(s) ==
  \E r \in requests[s] :
    /\ ~r.aborted
    /\ requests' = [requests EXCEPT ![s] = requests[s] \ {r}]

\* The scheduling the environment provides: an armed timer fires, and a
\* request that is not aborted is answered.
Fairness ==
  \A s \in Streams :
    /\ WF_timer(TimerExpires(s))
    /\ WF_requests(RequestAnswered(s))

SpecLive == Init /\ [][Next]_vars /\ Fairness

(* --------------------- fetchSparql called directly -------------------- *)

\* Texts with a quote, with a backslash, with the name of a placeholder of
\* the template (one token each) and with a replacement pattern.
CallQueries ==
  { <<>>, <<"a", "b">>, <<"a", "\"">>, <<"\\", "b">>, <<"\\", "\"">>, <<"q0">>,
    <<"qPred">>, <<"x", "qLang">>, <<"\"", "$", "&">>, <<"$", "'">> }
CallPredicates ==
  PredicateValues \cup { <<"rdf:type">>, <<>>, <<"RDFS:LABEL">> }
CallLangs ==
  { EN, NL, <<" ", "E", "N", " ">>, <<"N", "l">>, <<"d", "e">>, <<"e", "n", "x">>,
    <<" ">>, <<>>, Undefined }

InitCall ==
  /\ endpoint = DEFAULT_ENDPOINT
  /\ query = [s \in Streams |-> <<>>]
  /\ lang = [s \in Streams |-> EN]
  /\ debounced = [s \in Streams |-> <<>>]
  /\ timer = [s \in Streams |-> Armed(<<>>)]
  /\ controller = [s \in Streams |-> 0]
  /\ requests = [s \in Streams |-> {}]
  /\ nextId = [s \in Streams |-> 0]
  /\ state = [s \in Streams |-> IdleState(InitialState)]
  /\ events = 0
  /\ \E q \in CallQueries, p \in CallPredicates, l \in CallLangs :
       call = [phase |-> "args", query |-> q, predicate |-> p, lang |-> l,
               result |-> Return(<<>>)]
  /\ sent = 0

\* fetchSparql up to its fetch: buildQuery, which may throw, then the POST.
CallFetchSparql ==
  /\ call.phase = "args"
  /\ LET built == buildQuery(call.query, call.predicate, call.lang) IN
     /\ call' = [call EXCEPT !.phase = "done", !.result = built]
     /\ sent' = IF built.threw THEN sent ELSE sent + 1
  /\ UNCHANGED appVars

NextCall == CallFetchSparql

SpecCall == InitCall /\ [][NextCall]_vars

(* ------------------------- vocabulary of the claims ------------------- *)

Ids(reqs) == {r.id : r \in reqs}

\* The requests of stream s that are issued, not settled and not aborted.
Current(s) == {r \in requests[s] : ~r.aborted}

\* The requests stream s issues in a step.
NewRequests(s) == {r \in requests'[s] : r.id \notin Ids(requests[s])}

\* A pending request r of stream s settles in a step.
Settles(s, r) == r \in requests[s] /\ r.id \notin Ids(requests'[s])

TrimmedLength(t) == Len(Trim(t))

Set(x) == x # <<>>

\* How many of the four outcome variants other than Idle are active.
ActiveVariants(o) ==
  (IF o.loading THEN 1 ELSE 0) + (IF Set(o.error) THEN 1 ELSE 0)
  + (IF Set(o.info) THEN 1 ELSE 0) + (IF Set(o.results) THEN 1 ELSE 0)

\* Everything that belongs to stream t alone.
StreamState(t) ==
  <<query[t], lang[t], debounced[t], timer[t], controller[t], requests[t], nextId[t],
    state[t]>>

(* -------------------------------- C1 ---------------------------------- *)

\* C1 (debounce coalescing): while language and endpoint stay fixed, a
\* stream issues a request only in a step in which its armed timer fires;
\* the input does not change in that step, a single request is issued, and
\* that request carries the trimmed text the input holds, the last value
\* typed.  No input change issues a request, so no intermediate value of a
\* run of changes is ever requested.
C1_DebounceCoalescing ==
  [][\A s \in Streams :
       (NewRequests(s) # {} /\ lang' = lang /\ endpoint' = endpoint)
         => /\ query' = query
            /\ timer[s].armed /\ ~timer'[s].armed
            /\ Cardinality(NewRequests(s)) = 1
            /\ \A r \in NewRequests(s) : r.query = Trim(query[s])]_vars

\* Two changes of the drug input, nothing else touched, and the only
\* request the stream has issued carries the last value.
C1_Witness ==
  /\ events = 2 /\ query["ade"] = <<>> /\ lang["drug"] = EN /\ lang["ade"] = EN
  /\ endpoint = DEFAULT_ENDPOINT
  /\ query["drug"] = <<"c", "d">>
  /\ nextId["drug"] = 1
  /\ \E r \in requests["drug"] : r.query = <<"c", "d">> /\ ~r.aborted

(* -------------------------------- C2 ---------------------------------- *)

\* C2 (supersession): when a request settles that was aborted, or that is
\* not the request of the latest run of the effect, the outcome of its
\* stream does not change; in particular no Error appears.
C2_Supersession ==
  [][\A s \in Streams : \A r \in requests[s] :
       (Settles(s, r) /\ (r.aborted \/ r.id # controller[s]))
         => state'[s] = state[s]]_vars

\* A superseded request is still pending beside the request that
\* superseded it.
C2_Witness ==
  \E s \in Streams : \E r1, r2 \in requests[s] :
    r1.aborted /\ ~r2.aborted /\ r1.id < r2.id /\ state[s].loading

(* -------------------------------- C3 ---------------------------------- *)

\* C3 as stated: no request is issued while the text as typed has trimmed
\* length 0 or 1.
C3_AsStated ==
  [][\A s \in Streams :
       NewRequests(s) # {} => TrimmedLength(query'[s]) >= 2]_vars

\* C3, amended: no request is issued while the debounced text has trimmed
\* length 0 or 1, and every request carries a text of length 2 or more.
C3_NoRequestForShortDebounced ==
  [][\A s \in Streams :
       NewRequests(s) # {}
         => /\ TrimmedLength(debounced'[s]) >= 2
            /\ \A r \in NewRequests(s) : Len(r.query) >= 2]_vars

\* A request was issued while the input already held a too-short text:
\* the debounced copy was still the long one.
C3_Witness ==
  \E s \in Streams :
    /\ TrimmedLength(query[s]) < 2 /\ TrimmedLength(debounced[s]) >= 2
    /\ nextId[s] = 2 /\ events = 3
    /\ \E r \in Current(s) : r.id = 2

(* -------------------------------- C4 ---------------------------------- *)

\* C4: a stream has at most one current request, the one of the latest run
\* of the effect; after the too-short branch it has none.
C4_AtMostOneCurrent ==
  \A s \in Streams :
    /\ Cardinality(Current(s)) <= 1
    /\ \A r \in Current(s) : r.id = controller[s]

\* Going Idle left an aborted request behind and no current one.
C4_Witness ==
  \E s \in Streams :
    /\ controller[s] = 0
    /\ \E r \in requests[s] : r.aborted
    /\ Current(s) = {}

(* -------------------------------- C5 ---------------------------------- *)

\* C5 as stated: at most one of loading, error, info and rows is active.
C5_AsStated ==
  \A s \in Streams : ActiveVariants(state[s]) <= 1

\* C5, amended: at most one of error, info and rows is active, and loading
\* excludes error and info; loading may coexist with the rows of an
\* earlier response.
C5_OneSettledVariant ==
  \A s \in Streams :
    LET o == state[s] IN
    /\ ActiveVariants([o EXCEPT !.loading = FALSE]) <= 1
    /\ o.loading => ~Set(o.error) /\ ~Set(o.info)

\* Loading beside the rows of an earlier response.
C5_Witness ==
  \E s \in Streams : state[s].loading /\ Set(state[s].results)

(* -------------------------------- C6 ---------------------------------- *)

\* C6 as stated: the outcome is empty whenever the text as typed has
\* trimmed length below 2.
C6_AsStated ==
  \A s \in Streams : TrimmedLength(query[s]) < 2 => state[s] = InitialState

\* C6, amended: the outcome is empty whenever the debounced text has
\* trimmed length below 2.
C6_EmptyWhileDebouncedShort ==
  \A s \in Streams : TrimmedLength(debounced[s]) < 2 => state[s] = InitialState

\* The debounced text became too short after a request had been issued,
\* and that request, aborted, has settled.
C6_Witness ==
  \E s \in Streams :
    /\ TrimmedLength(debounced[s]) < 2 /\ debounced[s] # <<>>
    /\ nextId[s] = 1 /\ requests[s] = {}
    /\ state[s] = InitialState

(* -------------------------------- C7 ---------------------------------- *)

\* C7 (stream independence): a step that leaves the endpoint alone changes
\* the state of at most one stream; whatever one stream does, the input,
\* language, debounced value, timer, controller, requests and outcome of
\* the other stay as they are.
C7_StreamIndependence ==
  [][endpoint' = endpoint =>
       \A s \in Streams :
         StreamState(s)' # StreamState(s) => StreamState(Other(s))' = StreamState(Other(s))]_vars

\* One stream shows an Error while the other shows rows.
C7_Witness ==
  \E s \in Streams :
    /\ Set(state[s].error)
    /\ Set(state[Other(s)].results) /\ ~state[Other(s)].loading

(* -------------------------------- C8 ---------------------------------- *)

\* The rows the two bindings of the model map to.
ExpectedRow(b) ==
  IF b = BindingA THEN [id |-> <<"12345">>, label |-> <<"Ibuprofen">>]
  ELSE [id |-> <<"kg", "/">>, label |-> <<>>]

\* C8 (result mapping): when the current request of a stream gets a
\* successful response, zero bindings make the outcome exactly Info("No
\* matches found.") and one or more bindings make it exactly the mapped
\* rows, in response order.
C8_ResultMapping ==
  [][\A s \in Streams : \A r \in requests[s] : \A resp \in Responses :
       (Respond(s, r, resp) /\ resp.kind = "json")
         => IF Len(resp.bindings) = 0
            THEN state'[s] = [loading |-> FALSE, error |-> <<>>,
                              info |-> <<"No matches found.">>, results |-> <<>>]
            ELSE /\ state'[s].loading = FALSE
                 /\ state'[s].error = <<>>
                 /\ state'[s].info = <<>>
                 /\ Len(state'[s].results) = Len(resp.bindings)
                 /\ \A i \in 1..Len(resp.bindings) :
                      state'[s].results[i] = ExpectedRow(resp.bindings[i])]_vars

\* One stream shows "No matches found.", the other the two mapped rows.
C8_Witness ==
  \E s \in Streams :
    /\ state[s] = [loading |-> FALSE, error |-> <<>>,
                   info |-> <<"No matches found.">>, results |-> <<>>]
    /\ state[Other(s)] = [loading |-> FALSE, error |-> <<>>, info |-> <<>>,
                          results |-> <<ExpectedRow(BindingA), ExpectedRow(BindingB)>>]

(* -------------------------------- C9 ---------------------------------- *)

\* C9 (failure mapping): when the current request of a stream fails with a
\* network error or a non-2xx status, the outcome becomes an Error with
\* loading false, no info and no rows; the message holds the status code,
\* the status text and the body, or is the message of the transport error.
C9_FailureMapping ==
  [][\A s \in Streams : \A r \in requests[s] : \A resp \in Responses :
       (Respond(s, r, resp) /\ resp.kind \in {"http", "network"})
         => /\ state'[s].loading = FALSE
            /\ state'[s].info = <<>>
            /\ state'[s].results = <<>>
            /\ Set(state'[s].error)
            /\ resp.kind = "http"
                 => /\ Contains(state'[s].error, <<ToString(resp.status)>>)
                    /\ Contains(state'[s].error, resp.statusText)
                    /\ Contains(state'[s].error, resp.text)
            /\ resp.kind = "network" => state'[s].error = resp.text]_vars

\* The second request of a stream failed with status 500: the Error names
\* 500 and the body.
C9_Witness ==
  \E s \in Streams :
    /\ nextId[s] = 2 /\ requests[s] = {}
    /\ ~state[s].loading /\ state[s].results = <<>> /\ state[s].info = <<>>
    /\ Contains(state[s].error, <<"500">>)
    /\ Contains(state[s].error, <<"Internal error">>)

(* -------------------------------- C10 --------------------------------- *)

\* The language arguments of the model that trim and lowercase to en or nl.
SupportedLangs == { <<"e", "n">>, <<"n", "l">>, <<" ", "E", "N", " ">>, <<"N", "l">> }
RecognizedPredicates == { <<"rdfs:label">>, <<"skos:prefLabel">> }

\* C10 (validation): buildQuery throws exactly when the language is not en
\* or nl after trimming and lowercasing, or the predicate is not one of the
\* two recognized ones; the language is checked first; the message names
\* the rejected value; otherwise a query string is returned.  A call of
\* fetchSparql whose buildQuery throws makes no fetch.
C10_Validation ==
  call.phase = "done" =>
    LET badLang == call.lang \notin SupportedLangs
        badPredicate == call.predicate \notin RecognizedPredicates
        res == call.result
    IN /\ res.threw <=> (badLang \/ badPredicate)
       /\ badLang =>
            res.message = <<"Unsupported language: ">> \o call.lang
                          \o <<". Expected en or nl.">>
       /\ (~badLang /\ badPredicate) =>
            res.message = <<"Unsupported predicate: ">> \o call.predicate \o <<".">>
       /\ ~res.threw => Set(res.value) /\ sent = 1
       /\ res.threw => res.value = <<>> /\ sent = 0

\* A call with an unsupported language and an unrecognized predicate has
\* thrown.
C10_Witness ==
  /\ call.phase = "done"
  /\ call.lang = <<"d", "e">> /\ call.predicate = <<"rdf:type">>
  /\ call.result.threw /\ sent = 0

(* -------------------------------- C11 --------------------------------- *)

\* The template with its three slots filled.
FilledTemplate(text, predicate, langCode) ==
  <<SPARQL_TEMPLATE[1]>> \o text \o <<SPARQL_TEMPLATE[3]>> \o predicate
  \o <<SPARQL_TEMPLATE[5]>> \o langCode \o <<SPARQL_TEMPLATE[7]>>

\* The lowercased code of a supported language argument.
LangCode(l) ==
  IF l \in { <<"e", "n">>, <<" ", "E", "N", " ">> } THEN <<"e", "n">> ELSE <<"n", "l">>

\* C11 as stated: for every query text, the string buildQuery returns is
\* the template with the escaped text in the search slot, the predicate in
\* the predicate slot and the lowercased language code in the language
\* slot.
C11_AsStated ==
  (call.phase = "done" /\ ~call.result.threw)
    => call.result.value
         = FilledTemplate(escapeSparqlStringLiteral(call.query), call.predicate,
                          LangCode(call.lang))

(* -------------------------------- C12 --------------------------------- *)

\* The text of a quoted literal, read from its first character to the
\* closing quote: a backslash makes the next character literal.
RECURSIVE ReadLiteral(_)
ReadLiteral(seq) ==
  IF seq = <<>> THEN <<>>
  ELSE IF Head(seq) = "\\" /\ Len(seq) >= 2
  THEN <<seq[2]>> \o ReadLiteral(SubSeq(seq, 3, Len(seq)))
  ELSE IF Head(seq) \in {"\"", SPARQL_TEMPLATE[3], SPARQL_TEMPLATE[7]} THEN <<>>
  ELSE <<Head(seq)>> \o ReadLiteral(Tail(seq))

HasQuoteOrBackslash(text) == \E i \in 1..Len(text) : text[i] \in {"\"", "\\"}

\* C12 as stated: for every query text with a backslash or a double quote,
\* the literal buildQuery embeds in the search slot reads back as the
\* query text.
C12_AsStated ==
  (call.phase = "done" /\ ~call.result.threw /\ HasQuoteOrBackslash(call.query))
    => ReadLiteral(Tail(call.result.value)) = call.query

(* -------------------------------- C13 --------------------------------- *)

\* C13 as stated: every firing of a stream's timer with an input of
\* trimmed length 2 or more issues exactly one request.
C13_AsStated ==
  [][\A s \in Streams :
       (TimerFire(s) /\ TrimmedLength(query[s]) >= 2)
         => Cardinality(NewRequests(s)) = 1]_vars

\* C13, amended: a firing of a stream's timer with an input of trimmed
\* length 2 or more issues exactly one request, for the trimmed input,
\* when the value differs from the debounced value, and changes nothing
\* but the timer when the value equals the debounced value.
C13_OneRequestPerNewValue ==
  [][\A s \in Streams :
       (TimerFire(s) /\ TrimmedLength(query[s]) >= 2)
         => IF timer[s].value # debounced[s]
            THEN /\ Cardinality(NewRequests(s)) = 1
                 /\ \A r \in NewRequests(s) : r.query = Trim(query[s])
            ELSE /\ NewRequests(s) = {}
                 /\ requests' = requests /\ state' = state]_vars

\* After three changes of one input the timer is armed with the value
\* that is already the debounced one, for which the stream issued its
\* only request.
C13_Witness ==
  \E s \in Streams :
    /\ events = 3 /\ query[Other(s)] = <<>> /\ endpoint = DEFAULT_ENDPOINT
    /\ lang[s] = EN /\ lang[Other(s)] = EN
    /\ timer[s] = Armed(<<"a", "b">>) /\ debounced[s] = <<"a", "b">>
    /\ nextId[s] = 1

(* -------------------------------- C14 --------------------------------- *)

\* The timer of stream s fires in a step.
TimerFired(s) == timer[s].armed /\ ~timer'[s].armed

\* Stream s cancels a pending request in a step.
Cancels(s) ==
  \E r \in requests[s] :
    ~r.aborted /\ \E r2 \in requests'[s] : r2.id = r.id /\ r2.aborted

\* C14 as stated: requests are issued and cancelled only by a firing of
\* the stream's timer, and the outcome changes only by such a firing or by
\* the settlement of a request.
C14_AsStated ==
  [][\A s \in Streams :
       /\ (NewRequests(s) # {} \/ Cancels(s)) => TimerFired(s)
       /\ state'[s] # state[s]
            => (TimerFired(s) \/ \E r \in requests[s] : Settles(s, r))]_vars

\* C14, amended: requests are issued and cancelled only by a firing of the
\* stream's timer, a change of the stream's language or a change of the
\* endpoint, and the outcome changes only by one of these or by the
\* settlement of a request; a change of the input does none of it.
C14_WhatDrivesAStream ==
  [][\A s \in Streams :
       LET rerun == TimerFired(s) \/ lang'[s] # lang[s] \/ endpoint' # endpoint IN
       /\ (NewRequests(s) # {} \/ Cancels(s)) => rerun
       /\ state'[s] # state[s] => (rerun \/ \E r \in requests[s] : Settles(s, r))
       /\ query'[s] # query[s]
            => NewRequests(s) = {} /\ ~Cancels(s) /\ state'[s] = state[s]]_vars

\* A change of language has cancelled the request for the old language
\* and issued one for the new.
C14_Witness ==
  \E s \in Streams :
    /\ events = 2 /\ nextId[s] = 2 /\ lang[s] = NL
    /\ \E r \in requests[s] : r.id = 1 /\ r.aborted /\ r.lang = EN
    /\ \E r \in requests[s] : r.id = 2 /\ ~r.aborted /\ r.lang = NL

(* -------------------------------- C15 --------------------------------- *)

\* C15 (no automatic retry): while a stream shows an Error, a step that
\* changes neither its debounced text nor its language nor the endpoint
\* issues no request for it and leaves its outcome as it is; and no
\* request of the stream is current while it shows an Error.
C15_NoRetry ==
  [][\A s \in Streams :
       (Set(state[s].error) /\ debounced'[s] = debounced[s] /\ lang'[s] = lang[s]
        /\ endpoint' = endpoint)
         => /\ NewRequests(s) = {}
            /\ state'[s] = state[s]
            /\ Current(s) = {} /\ Current(s)' = {}]_vars

\* A stream shows an Error while a request it superseded earlier is still
\* to settle and its input is being edited.
C15_Witness ==
  \E s \in Streams :
    /\ Set(state[s].error) /\ ~state[s].loading
    /\ \E r \in requests[s] : r.aborted
    /\ timer[s].armed /\ query[s] # debounced[s]

(* -------------------------------- C16 --------------------------------- *)

\* Request r is the one for what stream s now asks: the endpoint, the
\* language, the predicate of the stream and the trimmed debounced text.
ForCurrentInputs(s, r) ==
  /\ r.endpoint = endpoint
  /\ r.lang = lang[s]
  /\ r.predicate = (IF s = "drug" THEN <<"rdfs:label">> ELSE <<"skos:prefLabel">>)
  /\ r.query = Trim(debounced[s])
  /\ r.body = FilledTemplate(r.query, r.predicate, r.lang)

\* The outcome is a settled one: an Error, an Info or rows, and not loading.
SettledOutcome(o) == ~o.loading /\ (Set(o.error) \/ Set(o.info) \/ Set(o.results))

\* C16: before and after every step the current request of a stream is
\* the one for its current endpoint, language, predicate and trimmed
\* debounced text; a settlement that changes the outcome is that of such a
\* request; and a change of the debounced text, the language or the
\* endpoint leaves no settled outcome behind.  So a settled outcome is
\* always the resolution of the request for the current combination.
C16_CurrentRequestIsForCurrentInputs ==
  [][\A s \in Streams :
       /\ \A r \in Current(s) : ForCurrentInputs(s, r)
       /\ \A r \in Current(s)' : ForCurrentInputs(s, r)'
       /\ \A r \in requests[s] :
            (Settles(s, r) /\ state'[s] # state[s]) => ForCurrentInputs(s, r)
       /\ (debounced'[s] # debounced[s] \/ lang'[s] # lang[s] \/ endpoint' # endpoint)
            => ~SettledOutcome(state'[s])]_vars

\* After a change of language and a change of endpoint a stream shows
\* rows: those of its third request.
C16_Witness ==
  \E s \in Streams :
    /\ events = 3 /\ nextId[s] = 3
    /\ lang[s] = NL /\ endpoint # DEFAULT_ENDPOINT
    /\ SettledOutcome(state[s]) /\ Set(state[s].results)

(* -------------------------------- C17 --------------------------------- *)

\* C17: a stream is loading exactly when it has a current request.
C17_LoadingIffCurrentRequest ==
  \A s \in Streams : state[s].loading <=> Current(s) # {}

\* One stream is loading with its second request current and its first,
\* aborted, not yet settled; the other has settled and has none.
C17_Witness ==
  \E s \in Streams :
    /\ state[s].loading /\ nextId[s] = 2
    /\ \E r \in Current(s) : r.id = 2
    /\ \E r \in requests[s] : r.id = 1 /\ r.aborted
    /\ SettledOutcome(state[Other(s)]) /\ requests[Other(s)] = {}

(* -------------------------------- C18 --------------------------------- *)

\* C18: a change of a stream's input only re-arms its timer, with the new
\* text: debounced value, controller, requests and outcome stay.  A
\* request is cancelled only in a step that changes the debounced value,
\* the language or the endpoint.  A response to the current request that
\* arrives while a newer input is still debouncing is applied.
C18_InputChangeOnlyRearms ==
  [][\A s \in Streams :
       /\ query'[s] # query[s]
            => /\ timer'[s] = [armed |-> TRUE, value |-> query'[s]]
               /\ debounced'[s] = debounced[s]
               /\ controller'[s] = controller[s]
               /\ requests'[s] = requests[s]
               /\ state'[s] = state[s]
       /\ Cancels(s)
            => (debounced'[s] # debounced[s] \/ lang'[s] # lang[s] \/ endpoint' # endpoint)
       /\ \A r \in requests[s] : \A resp \in Responses :
            (Respond(s, r, resp) /\ timer[s].armed /\ query[s] # debounced[s])
              => SettledOutcome(state'[s])]_vars

\* A request for the debounced text is still current while the input
\* already holds another text whose timer has not fired.
C18_Witness ==
  \E s \in Streams :
    /\ timer[s].armed /\ query[s] # debounced[s]
    /\ TrimmedLength(query[s]) >= 2 /\ Trim(query[s]) # Trim(debounced[s])
    /\ \E r \in Current(s) : r.query = Trim(debounced[s])
    /\ nextId[s] = 1

(* -------------------------------- C19 --------------------------------- *)

\* Stream s is at rest with an outcome for the text its input holds.
Quiescent(s) ==
  /\ ~timer[s].armed /\ debounced[s] = query[s]
  /\ ~state[s].loading /\ Current(s) = {}
  /\ IF TrimmedLength(query[s]) < 2 THEN state[s] = InitialState
     ELSE SettledOutcome(state[s])

\* C19 (quiescence): user events being finitely many, every stream
\* eventually is and stays at rest: no timer armed, not loading, the
\* outcome empty when the final text is too short and an Error, an Info or
\* rows otherwise.
C19_Quiescence == <>[](\A s \in Streams : Quiescent(s))

\* All user events spent, both streams at rest, one with a settled
\* outcome for its final text and one empty after a too-short final text.
C19_Witness ==
  /\ events = MaxEvents
  /\ \A s \in Streams : Quiescent(s)
  /\ \E s \in Streams :
       /\ SettledOutcome(state[s]) /\ nextId[s] >= 1
       /\ query[Other(s)] # <<>> /\ state[Other(s)] = InitialState

====
